---------------------------- MODULE Spec2Model ----------------------------
(***************************************************************************)
(* Model of ao3rss_rs (src/src/main.rs): the selector-based extraction of  *)
(* a Work and its Chapters from a fetched document, the mapping of a Work  *)
(* to an RSS channel, the keepalive stream adapter that races the scrape   *)
(* against a one-second interval, the /work/<id> route that wires them     *)
(* together, and the client-configuration step of the rocket launch.       *)
(***************************************************************************)
EXTENDS Integers, Sequences, FiniteSets, TLC

(***************************************************************************)
(* Bounds of the model.                                                    *)
(***************************************************************************)
MaxChapters == 2      \* chapter containers per document
MaxDurHalves == 5     \* longest operation, in half intervals
MaxLagHalves == 4     \* how far a slow consumer lets the tick deadline fall behind
MaxOut == 4           \* window of delivered chunks that is remembered
MaxBeats == 6         \* the heartbeat counter saturates here

(***************************************************************************)
(* Option<T> is a sequence of length at most one.                          *)
(***************************************************************************)
None == <<>>
Some(v) == <<v>>
IsSome(o) == o # <<>>
Unwrap(o) == o[1]
Nth0(matches) == IF matches = <<>> THEN None ELSE Some(matches[1])

Ok(v) == [ok |-> TRUE, val |-> v]
Err(e) == [ok |-> FALSE, err |-> e]

Min(a, b) == IF a < b THEN a ELSE b

(***************************************************************************)
(* NaiveDate::parse_from_str(text, "%Y-%m-%d") as chrono evaluates it.     *)
(* A text is a sequence of one-character strings.                          *)
(***************************************************************************)
Digits == <<"0", "1", "2", "3", "4", "5", "6", "7", "8", "9">>
IsDigit(c) == \E i \in 1..10 : Digits[i] = c
DigitVal(c) == (CHOOSE i \in 1..10 : Digits[i] = c) - 1

RECURSIVE TrimLeft(_)
TrimLeft(s) == IF s # <<>> /\ Head(s) = " " THEN TrimLeft(Tail(s)) ELSE s

RECURSIVE NumVal(_, _)
NumVal(s, n) == IF n = 0 THEN 0 ELSE NumVal(s, n - 1) * 10 + DigitVal(s[n])

\* scan::number(s, min, max): the longest run of at most max leading digits
ScanNumber(s, min, max) ==
  LET lim == Min(max, Len(s))
      n == CHOOSE k \in 0..lim :
             /\ \A i \in 1..k : IsDigit(s[i])
             /\ (k = lim \/ ~IsDigit(s[k + 1]))
  IN IF n < min THEN Err("INVALID")
     ELSE Ok([v |-> NumVal(s, n), rest |-> SubSeq(s, n + 1, Len(s))])

\* a numeric item: leading white space is skipped; %Y may carry a sign
ScanItem(s0, width, signed) ==
  LET s == TrimLeft(s0)
  IN IF signed /\ s # <<>> /\ Head(s) = "-"
       THEN LET r == ScanNumber(Tail(s), 1, Len(s))
            IN IF r.ok THEN Ok([v |-> 0 - r.val.v, rest |-> r.val.rest]) ELSE r
     ELSE IF signed /\ s # <<>> /\ Head(s) = "+"
       THEN ScanNumber(Tail(s), 1, Len(s))
     ELSE ScanNumber(s, 1, width)

ScanLiteral(s, c) ==
  IF s # <<>> /\ Head(s) = c THEN Ok(Tail(s)) ELSE Err("INVALID")

IsLeap(y) == (y % 4 = 0 /\ y % 100 # 0) \/ y % 400 = 0

DaysIn(y, m) ==
  IF m = 2 THEN (IF IsLeap(y) THEN 29 ELSE 28)
  ELSE IF m \in {4, 6, 9, 11} THEN 30 ELSE 31

ValidDate(y, m, d) == m \in 1..12 /\ d >= 1 /\ d <= DaysIn(y, m)

parse_from_str(text) ==
  LET y == ScanItem(text, 4, TRUE)
  IN IF ~y.ok THEN None ELSE
     LET l1 == ScanLiteral(y.val.rest, "-")
     IN IF ~l1.ok THEN None ELSE
        LET m == ScanItem(l1.val, 2, FALSE)
        IN IF ~m.ok THEN None ELSE
           LET l2 == ScanLiteral(m.val.rest, "-")
           IN IF ~l2.ok THEN None ELSE
              LET d == ScanItem(l2.val, 2, FALSE)
              IN IF ~d.ok THEN None
                 ELSE IF d.val.rest # <<>> THEN None
                 ELSE IF ~ValidDate(y.val.v, m.val.v, d.val.v) THEN None
                 ELSE Some([y |-> y.val.v, m |-> m.val.v, d |-> d.val.v])



(***************************************************************************)
(* Documents.  The tree parser is a collaborator: a document is given by   *)
(* the matches, in document order, of each selector that the scrape uses.  *)
(***************************************************************************)
Chars(n) ==
  CASE n = 1 -> <<"2", "0", "2", "1", "-", "0", "7", "-", "0", "4">>
    [] n = 2 -> <<"0", "7", "/", "0", "4", "/", "2", "0", "2", "1">>
    [] n = 3 -> <<"2", "0", "2", "0", "-", "0", "1", "-", "0", "2">>
    [] n = 4 -> <<"2", "0", "2", "1", "/", "0", "7", "/", "0", "4">>
    [] n = 5 -> <<" ", "2", "0", "2", "1", "-", "7", "-", "4">>
    [] OTHER -> <<"2", "0", "2", "1", "-", "0", "7", "-", "0", "4", " ">>

DateTexts == {Chars(n) : n \in 1..6}

DateNodes == {[text |-> t] : t \in DateTexts}

\* the parse of every text that occurs, evaluated once
ParsedDates == [t \in DateTexts |-> parse_from_str(t)]

parse_date_from_node(node) == ParsedDates[node.text]

TitleNode(text, anchors) == [text |-> text, anchors |-> anchors]
Child(class, html) == [class |-> class, html |-> html]
ChapterNode(titles, summaries, children) ==
  [titles |-> titles, summaries |-> summaries, children |-> children]

ChapterKinds == {"one", "two", "noTitle", "noAnchor", "noHref", "noContent", "dup"}

\* the chapter containers the documents are built from
ChapterOf(k) ==
  CASE k = "one" ->
         ChapterNode(<<TitleNode("Chapter 1", <<[href |-> Some("/works/12345/chapters/1")]>>)>>,
                     <<"<p>first summary</p>">>,
                     <<Child("title", "Chapter 1"), Child("userstuff", "<p>first body</p>")>>)
    [] k = "two" ->
         ChapterNode(<<TitleNode("Chapter 2", <<[href |-> Some("/works/12345/chapters/2")]>>)>>,
                     <<>>,
                     <<Child("userstuff", "<p>second body</p>")>>)
    [] k = "noTitle" ->
         ChapterNode(<<>>, <<>>, <<Child("userstuff", "<p>untitled body</p>")>>)
    [] k = "noAnchor" ->
         ChapterNode(<<TitleNode("Chapter 3", <<>>)>>, <<>>,
                     <<Child("userstuff", "<p>third body</p>")>>)
    [] k = "noHref" ->
         ChapterNode(<<TitleNode("Chapter 4", <<[href |-> None]>>)>>, <<>>,
                     <<Child("userstuff", "<p>fourth body</p>")>>)
    [] k = "noContent" ->
         ChapterNode(<<TitleNode("Chapter 5", <<[href |-> Some("/works/12345/chapters/5")]>>)>>,
                     <<"<p>fifth summary</p>">>,
                     <<Child("title", "Chapter 5"), Child("notes", "<p>note</p>")>>)
    [] OTHER ->
         ChapterNode(<<TitleNode("Chapter 6", <<[href |-> Some("/works/12345/chapters/6")],
                                               [href |-> Some("/works/12345/chapters/9")]>>),
                       TitleNode("Decoy", <<>>)>>,
                     <<"<p>sixth summary</p>", "<p>decoy summary</p>">>,
                     <<Child("userstuff", "<p>sixth body</p>"),
                       Child("userstuff", "<p>decoy body</p>")>>)

ChapterNodes == {ChapterOf(k) : k \in ChapterKinds}

SeqsUpTo(S, n) == UNION {[1..k -> S] : k \in 0..n}

Documents ==
  [h2title : {<<>>, <<"Sample Fic">>, <<"Sample Fic", "Decoy Title">>},
   summary : {<<>>, <<"A summary">>},
   published : {<<>>} \cup {<<n>> : n \in DateNodes},
   status : {<<>>} \cup {<<n>> : n \in DateNodes},
   chapters : SeqsUpTo(ChapterNodes, MaxChapters)]

WorkIds == {12345}

(***************************************************************************)
(* Chapter::scrape                                                         *)
(***************************************************************************)
Origin == "https://archiveofourown.org"

FirstUserstuff(children) ==
  LET hits == SelectSeq(children, LAMBDA c : c.class = "userstuff")
  IN IF hits = <<>> THEN None ELSE Some(hits[1].html)

Chapter_scrape(chapter_node) ==
  LET title == Nth0(chapter_node.titles)
  IN IF ~IsSome(title) THEN Err("Missing Chapter Title") ELSE
     LET chapter_link == Nth0(Unwrap(title).anchors)
     IN IF ~IsSome(chapter_link) THEN Err("Missing Chapter Link") ELSE
        LET href == Unwrap(chapter_link).href
        IN IF ~IsSome(href) THEN Err("Missing href?") ELSE
           LET content == FirstUserstuff(chapter_node.children)
           IN IF ~IsSome(content) THEN Err("Missing content")
              ELSE Ok([title |-> Unwrap(title).text,
                       link |-> <<Origin, Unwrap(href)>>,
                       summary |-> Nth0(chapter_node.summaries),
                       pre_notes |-> None,
                       content |-> Unwrap(content),
                       post_notes |-> None])

\* mutation: a chapter that fails to scrape is left out of the Work
RECURSIVE CollectChaptersLenient(_)
CollectChaptersLenient(nodes) ==
  IF nodes = <<>> THEN Ok(<<>>)
  ELSE LET c == Chapter_scrape(Head(nodes))
           rest == CollectChaptersLenient(Tail(nodes))
       IN IF ~c.ok THEN rest ELSE Ok(<<c.val>> \o rest.val)

\* collect::<Result<Vec<Chapter>, _>>(): the first error ends the collection
RECURSIVE CollectChapters(_)
CollectChapters(nodes) ==
  IF nodes = <<>> THEN Ok(<<>>)
  ELSE LET c == Chapter_scrape(Head(nodes))
       IN IF ~c.ok THEN c
          ELSE LET rest == CollectChapters(Tail(nodes))
               IN IF ~rest.ok THEN rest ELSE Ok(<<c.val>> \o rest.val)

(***************************************************************************)
(* Work::scrape.  fetched is the outcome of send().and_then(text()).       *)
(***************************************************************************)
Work_scrape(fetched, work_id) ==
  IF ~fetched.ok THEN Err(fetched.err) ELSE
  LET work == fetched.val
      title == Nth0(work.h2title)
  IN IF ~IsSome(title) THEN Err("Missing Work Title") ELSE
     LET pnode == Nth0(work.published)
         publish_date == IF IsSome(pnode) THEN parse_date_from_node(Unwrap(pnode)) ELSE None
     IN IF ~IsSome(publish_date) THEN Err("Missing Publish Date") ELSE
        LET unode == Nth0(work.status)
            update_date == IF IsSome(unode) THEN parse_date_from_node(Unwrap(unode)) ELSE None
        IN IF ~IsSome(update_date) THEN Err("Missing Update Date") ELSE
           LET chapters == CollectChapters(work.chapters)
           IN IF ~chapters.ok THEN chapters
              ELSE Ok([work_id |-> work_id,
                       title |-> Unwrap(title),
                       summary |-> Nth0(work.summary),
                       notes |-> None,
                       post_notes |-> None,
                       publish_date |-> Unwrap(publish_date),
                       update_date |-> Unwrap(update_date),
                       chapters |-> chapters.val])

(***************************************************************************)
(* rfc822 and Work::to_rss; write_to renders a channel as a sequence of    *)
(* text pieces (the bytes of the feed).                                    *)
(***************************************************************************)
RECURSIVE FmtNum(_, _)
FmtNum(n, width) ==
  IF width <= 1 /\ n < 10 THEN <<Digits[n + 1]>>
  ELSE FmtNum(n \div 10, width - 1) \o <<Digits[(n % 10) + 1]>>

DayNames == <<"Sun", "Mon", "Tue", "Wed", "Thu", "Fri", "Sat">>
MonthNames == <<"Jan", "Feb", "Mar", "Apr", "May", "Jun",
                "Jul", "Aug", "Sep", "Oct", "Nov", "Dec">>
MonthShift == <<0, 3, 2, 5, 0, 3, 5, 1, 4, 6, 2, 4>>

Weekday(date) ==
  LET y == IF date.m < 3 THEN date.y - 1 ELSE date.y
  IN (y + (y \div 4) - (y \div 100) + (y \div 400) + MonthShift[date.m] + date.d) % 7

\* date.format("%a, %d %b %Y 00:00:00 +0000")
rfc822(date) ==
  <<DayNames[Weekday(date) + 1], ", ">> \o FmtNum(date.d, 2) \o
  <<" ", MonthNames[date.m], " ">> \o
  (IF date.y < 0 THEN <<"-">> \o FmtNum(0 - date.y, 4) ELSE FmtNum(date.y, 4)) \o
  <<" 00:00:00 +0000">>

Item(chapter) ==
  [title |-> chapter.title,
   link |-> chapter.link,
   description |-> chapter.summary,
   content |-> chapter.content,
   guid |-> [value |-> chapter.link, permalink |-> TRUE]]

to_rss(self) ==
  [title |-> self.title,
   description |-> IF IsSome(self.summary) THEN Unwrap(self.summary) ELSE "AO3 Fic",
   link |-> <<"https://archiveofourown.org/works/">> \o FmtNum(self.work_id, 1),
   pub_date |-> rfc822(self.publish_date),
   last_build_date |-> rfc822(self.update_date),
   generator |-> "https://github.com/kitlith/ao3rss_rs",
   namespaces |-> <<"content", "http://purl.org/rss/1.0/modules/content/">>,
   items |-> [i \in 1..Len(self.chapters) |-> Item(self.chapters[i])]]

Element(name, body) == <<"<", name, ">">> \o body \o <<"</", name, ">">>

WriteItem(item) ==
  Element("item",
    Element("title", <<item.title>>) \o
    Element("link", item.link) \o
    (IF IsSome(item.description)
       THEN Element("description", <<Unwrap(item.description)>>) ELSE <<>>) \o
    Element("guid", item.guid.value) \o
    Element("content:encoded", <<item.content>>))

RECURSIVE WriteItems(_)
WriteItems(items) ==
  IF items = <<>> THEN <<>> ELSE WriteItem(Head(items)) \o WriteItems(Tail(items))

write_to(channel) ==
  <<"<rss version=2.0 xmlns:">> \o channel.namespaces \o <<">">> \o
  Element("channel",
    Element("title", <<channel.title>>) \o
    Element("link", channel.link) \o
    Element("description", <<channel.description>>) \o
    Element("pubDate", channel.pub_date) \o
    Element("lastBuildDate", channel.last_build_date) \o
    Element("generator", <<channel.generator>>) \o
    WriteItems(channel.items)) \o
  <<"</rss>">>

(***************************************************************************)
(* State.                                                                  *)
(***************************************************************************)
VARIABLES
  page,      \* outcome of the outbound GET: Ok(document) or Err(transport error)
  scraped,   \* result of Work::scrape once it has run (ScrapeSpec)
  feed,      \* bytes written from the channel once to_rss has run (ScrapeSpec)
  opDur,     \* time the wrapped operation needs from its first poll, or Never
  pc,        \* where the stream! generator is suspended
  timer,     \* the interval: "none", "armed" or "released"
  tickIn,    \* time until the interval's next deadline (<= 0: a tick is ready)
  op,        \* the fused future: "unpolled", "inflight", "terminated", "released"
  opIn,      \* time until the operation resolves (0: ready)
  exit,      \* the generator's exit flag
  pending,   \* chunks yielded and not yet consumed by the reader
  out,       \* the last MaxOut chunks the reader consumed
  beats,     \* number of heartbeat chunks consumed (saturating)
  terms,     \* number of terminal chunks consumed (saturating)
  delayed,   \* the consumer has let time pass before pulling
  lpc,       \* where the "Client Config" fairing is
  cfgUser,   \* configuration value of ao3_username
  cfgPass,   \* configuration value of ao3_password
  tokenRes,  \* outcome of the token_dispenser GET
  postRes,   \* outcome of the login POST
  logins,    \* number of ao3_login calls started
  loggedIn,  \* Some(result of ao3_login) once it returned
  managed    \* the client has been handed to rocket.manage

scrapeVars == <<page, scraped, feed>>
streamVars == <<opDur, pc, timer, tickIn, op, opIn, exit, pending, out, beats, terms, delayed>>
launchVars == <<lpc, cfgUser, cfgPass, tokenRes, postRes, logins, loggedIn, managed>>
vars == <<scrapeVars, streamVars, launchVars>>

Never == 0 - 1

\* the parts of the state a specification does not exercise
StreamOff ==
  /\ opDur = Never /\ pc = "off" /\ timer = "none" /\ tickIn = 0
  /\ op = "released" /\ opIn = Never /\ exit = FALSE
  /\ pending = <<>> /\ out = <<>> /\ beats = 0 /\ terms = 0 /\ delayed = FALSE

LaunchOff ==
  /\ lpc = "off" /\ cfgUser = "missing" /\ cfgPass = "missing"
  /\ tokenRes = "ok" /\ postRes = "found" /\ logins = 0
  /\ loggedIn = None /\ managed = FALSE

ScrapeOff == scraped = None /\ feed = None

(***************************************************************************)
(* ScrapeSpec: Work::scrape and the feed synthesis applied to every page.  *)
(***************************************************************************)
Pages == {Err("transport")} \cup {Ok(d) : d \in Documents}

ScrapeInit ==
  /\ page \in Pages
  /\ ScrapeOff /\ StreamOff /\ LaunchOff

Scrape ==
  /\ scraped = None
  /\ \E work_id \in WorkIds : scraped' = Some(Work_scrape(page, work_id))
  /\ UNCHANGED <<page, feed, streamVars, launchVars>>

Synthesize ==
  /\ IsSome(scraped) /\ Unwrap(scraped).ok /\ feed = None
  /\ feed' = Some(write_to(to_rss(Unwrap(scraped).val)))
  /\ UNCHANGED <<page, scraped, streamVars, launchVars>>

ScrapeNext == Scrape \/ Synthesize

ScrapeSpec == ScrapeInit /\ [][ScrapeNext]_vars

(***************************************************************************)
(* The /work/<id> route: the scrape, mapped to feed bytes, errors wrapped  *)
(* as io::Error, fused and handed to keepalive_future.                     *)
(***************************************************************************)
Interval == 1000
Half == Interval \div 2

KeepaliveBytes == <<"<!-- keepalive -->">>

GoodDoc ==
  [h2title |-> <<"Sample Fic">>, summary |-> <<"A summary">>,
   published |-> <<[text |-> Chars(3)]>>, status |-> <<[text |-> Chars(1)]>>,
   chapters |-> <<ChapterOf("one"), ChapterOf("two")>>]

RoutePages ==
  {Err("transport"),
   Ok(GoodDoc),
   Ok([GoodDoc EXCEPT !.h2title = <<>>]),
   Ok([GoodDoc EXCEPT !.published = <<[text |-> Chars(2)]>>]),
   Ok([GoodDoc EXCEPT !.chapters = <<ChapterOf("one"), ChapterOf("noContent")>>]),
   Ok([GoodDoc EXCEPT !.chapters = <<>>, !.summary = <<>>])}

\* mutation: the feed is written as far as the extraction got
respondPartial(fetched, work_id) ==
  LET r == Work_scrape(fetched, work_id)
  IN IF r.ok THEN Ok(write_to(to_rss(r.val)))
     ELSE Ok(<<"<rss version=2.0 xmlns:">>)
\* Work::scrape(..).map_ok(to_rss, write_to, Bytes::from).map_err(io::Error::new)
respond(fetched, work_id) ==
  LET r == Work_scrape(fetched, work_id)
  IN IF r.ok THEN Ok(write_to(to_rss(r.val)))
     ELSE Err(<<"io::ErrorKind::Other", r.err>>)

\* what the future built by the route resolves to, for every page, evaluated once
Responses == [p \in RoutePages |-> [w \in WorkIds |-> respond(p, w)]]

work(work_id) == Responses[page][work_id]

Durations == {k * Half : k \in 1..MaxDurHalves}
Delays == {Half, Interval}

(***************************************************************************)
(* keepalive_future                                                        *)
(***************************************************************************)
Live == pc \in {"created", "select", "yielded"}

\* mutation: the tick branch completes on every wait
TickAlways == timer = "armed"
TickReady == timer = "armed" /\ tickIn <= 0

\* mutation: the branches are polled tick first, so a ready tick hides the future
OpReadyBiased == op = "inflight" /\ opIn = 0 /\ ~TickReady
OpReady == op = "inflight" /\ opIn = 0

\* mutation: the producer runs ahead of the reader
ConsumerReadyEager == TRUE
\* the reader asks for the next chunk only when it has used up the last one
ConsumerReady == pending = <<>>

\* mutation: the loop has no break
BreaksNever == FALSE
\* after a yield the generator leaves the loop when exit is set
Breaks == exit

\* mutation: the future was spawned as a task of its own and outlives the stream
DropFutDetached == op
\* what dropping the generator does to the future it owns
DropFut == "released"

\* the first poll of the future sends the request
Polled(o) == IF o = "unpolled" THEN "inflight" ELSE o
PolledIn(o, t) == IF o = "unpolled" THEN opDur ELSE t

Elapse(t, d) == IF t = Never THEN Never ELSE IF t <= d THEN 0 ELSE t - d

\* a yielded chunk, with the branch that produced it and what was ready in that wait
Entry(src, chunk) ==
  [src |-> src, chunk |-> chunk,
   tickReady |-> (timer = "armed" /\ tickIn <= 0),
   opReady |-> (op = "inflight" /\ opIn = 0)]

\* the consumer polls the stream: the generator starts, or resumes after a yield
Poll ==
  /\ pc \in {"created", "yielded"}
  /\ ConsumerReady
  /\ IF pc = "created"
       THEN /\ timer' = "armed"      \* interval(): the first tick is due at once
            /\ tickIn' = 0
            /\ pc' = "select"
            /\ UNCHANGED <<op, exit>>
     ELSE IF Breaks
       THEN /\ pc' = "done"          \* the generator returns and drops its locals
            /\ timer' = "released"
            /\ op' = "released"
            /\ UNCHANGED <<tickIn, exit>>
     ELSE /\ pc' = "select"
          /\ exit' = FALSE
          /\ UNCHANGED <<timer, tickIn, op>>
  /\ UNCHANGED <<opDur, opIn, pending, out, beats, terms, delayed>>
  /\ UNCHANGED <<scrapeVars, launchVars>>

\* select!: the tick branch completes.  The branches are polled in a
\* pseudo-random order, so the future was polled first (and was pending)
\* or was not polled at all.
SelectTick(opFirst) ==
  /\ pc = "select"
  /\ TickReady
  /\ opFirst => (op \in {"unpolled", "inflight"} /\ ~OpReady)
  /\ pending' = Append(pending, Entry("tick", Ok(KeepaliveBytes)))
  /\ tickIn' = tickIn + Interval
  /\ op' = IF opFirst THEN Polled(op) ELSE op
  /\ opIn' = IF opFirst THEN PolledIn(op, opIn) ELSE opIn
  /\ exit' = FALSE
  /\ pc' = "yielded"
  /\ UNCHANGED <<opDur, timer, out, beats, terms, delayed>>
  /\ UNCHANGED <<scrapeVars, launchVars>>

\* select!: the future completes; a tick that is ready too is left behind
SelectOp ==
  /\ pc = "select"
  /\ OpReady
  /\ \E work_id \in WorkIds :
       pending' = Append(pending, Entry("op", work(work_id)))
  /\ op' = "terminated"
  /\ exit' = TRUE
  /\ pc' = "yielded"
  /\ UNCHANGED <<opDur, timer, tickIn, opIn, out, beats, terms, delayed>>
  /\ UNCHANGED <<scrapeVars, launchVars>>

\* select!: neither branch is ready; both are registered and the task
\* sleeps until the earlier of the two events
Wait ==
  /\ pc = "select"
  /\ ~TickReady
  /\ op # "terminated" => ~(Polled(op) = "inflight" /\ PolledIn(op, opIn) = 0)
  /\ LET t == IF op = "terminated" THEN Never ELSE PolledIn(op, opIn)
         d == IF t = Never THEN tickIn ELSE Min(tickIn, t)
     IN /\ tickIn' = tickIn - d
        /\ opIn' = IF op = "terminated" THEN opIn ELSE Elapse(t, d)
  /\ op' = Polled(op)
  /\ UNCHANGED <<opDur, pc, timer, exit, pending, out, beats, terms, delayed>>
  /\ UNCHANGED <<scrapeVars, launchVars>>

\* the reader uses up the chunk it was given
Accept ==
  /\ Live
  /\ pending # <<>>
  /\ LET e == Head(pending)
     IN /\ out' = IF Len(out) < MaxOut THEN Append(out, e) ELSE Append(Tail(out), e)
        /\ beats' = IF e.src = "tick" THEN Min(beats + 1, MaxBeats) ELSE beats
        /\ terms' = IF e.src = "op" THEN Min(terms + 1, 2) ELSE terms
  /\ pending' = Tail(pending)
  /\ UNCHANGED <<opDur, pc, timer, tickIn, op, opIn, exit, delayed>>
  /\ UNCHANGED <<scrapeVars, launchVars>>

\* time passes while the consumer holds a chunk and does not poll
ConsumerDelay(d) ==
  /\ pc = "yielded"
  /\ timer = "armed" \/ op = "inflight"
  /\ tickIn - d >= 0 - MaxLagHalves * Half
  /\ tickIn' = IF timer = "armed" THEN tickIn - d ELSE tickIn
  /\ opIn' = IF op = "inflight" THEN Elapse(opIn, d) ELSE opIn
  /\ delayed' = TRUE
  /\ UNCHANGED <<opDur, pc, timer, op, exit, pending, out, beats, terms>>
  /\ UNCHANGED <<scrapeVars, launchVars>>

\* the consumer drops the stream: the generator and all it owns are dropped
Drop ==
  /\ Live
  /\ pc' = "dropped"
  /\ timer' = "released"
  /\ op' = DropFut
  /\ UNCHANGED <<opDur, tickIn, opIn, exit, pending, out, beats, terms, delayed>>
  /\ UNCHANGED <<scrapeVars, launchVars>>

Init ==
  /\ page \in RoutePages
  /\ opDur \in Durations \cup {Never}
  /\ pc = "created" /\ timer = "none" /\ tickIn = 0
  /\ op = "unpolled" /\ opIn = Never /\ exit = FALSE
  /\ pending = <<>> /\ out = <<>> /\ beats = 0 /\ terms = 0 /\ delayed = FALSE
  /\ ScrapeOff /\ LaunchOff

Next ==
  \/ Poll
  \/ \E opFirst \in BOOLEAN : SelectTick(opFirst)
  \/ SelectOp
  \/ Wait
  \/ Accept
  \/ \E d \in Delays : ConsumerDelay(d)
  \/ Drop

Spec == Init /\ [][Next]_vars

\* A consumer that never drops the stream.  The branch order of select! is
\* pseudo-random: a branch that is ready in infinitely many waits is
\* eventually the one that completes.
LivePages == {Err("transport"), Ok(GoodDoc)}

LiveInit ==
  /\ page \in LivePages
  /\ opDur \in Durations \cup {Never}
  /\ pc = "created" /\ timer = "none" /\ tickIn = 0
  /\ op = "unpolled" /\ opIn = Never /\ exit = FALSE
  /\ pending = <<>> /\ out = <<>> /\ beats = 0 /\ terms = 0 /\ delayed = FALSE
  /\ ScrapeOff /\ LaunchOff

LiveNext ==
  \/ Poll
  \/ \E opFirst \in BOOLEAN : SelectTick(opFirst)
  \/ SelectOp
  \/ Wait
  \/ Accept
  \/ \E d \in Delays : ConsumerDelay(d)

LiveSpec ==
  /\ LiveInit /\ [][LiveNext]_vars
  /\ WF_vars(Poll) /\ WF_vars(Accept) /\ WF_vars(Wait)
  /\ WF_vars(\E opFirst \in BOOLEAN : SelectTick(opFirst))
  /\ SF_vars(SelectTick(TRUE))
  /\ SF_vars(SelectOp)

(***************************************************************************)
(* Properties of the keepalive stream.                                     *)
(***************************************************************************)
Emitted == out \o pending
IsTerminal(e) == e.src = "op"
IsHeartbeat(e) == e.src = "tick"
Terminals == {i \in 1..Len(Emitted) : IsTerminal(Emitted[i])}
Extracted == Work_scrape(page, 12345)

\* C1: at most one terminal chunk is emitted, nothing is emitted after it,
\* and it carries the operation's result: Ok(bytes) on success, Err(e) on failure.
C1_TerminalOnceLastAndFaithful ==
  /\ terms <= 1
  /\ Cardinality(Terminals) <= 1
  /\ \A i \in Terminals :
       /\ i = Len(Emitted)
       /\ Emitted[i].chunk.ok = Extracted.ok
       /\ Extracted.ok => Emitted[i].chunk.val = write_to(to_rss(Extracted.val))
       /\ ~Extracted.ok => Emitted[i].chunk.err[2] = Extracted.err
  /\ pc = "done" => (terms = 1 /\ pending = <<>> /\ IsTerminal(out[Len(out)]))

C1_Witness ==
  /\ pc = "done" /\ beats >= 2 /\ terms = 1
  /\ out[Len(out)].chunk.ok

\* C2: with a consumer that pulls without delay, an operation resolving after
\* D yields exactly floor(D/I) heartbeats and then one terminal chunk.
C2_FloorHeartbeats ==
  (pc = "done" /\ ~delayed /\ opDur # Never) =>
     (beats = opDur \div Interval /\ terms = 1)

\* C3 as stated: no heartbeat is emitted in a wait in which the operation
\* has already resolved.
C3_NoHeartbeatOnceResolved ==
  \A i \in 1..Len(Emitted) : IsHeartbeat(Emitted[i]) => ~Emitted[i].opReady

\* C3 amended: a heartbeat is emitted only in a wait where a tick is ready,
\* the terminal chunk only in a wait where the operation has resolved (so it
\* is what a wait with a resolved operation and no ready tick emits), and
\* after the terminal chunk the ready tick produces nothing.
C3_HeartbeatNeedsTick ==
  \A i \in 1..Len(Emitted) :
    /\ IsHeartbeat(Emitted[i]) => Emitted[i].tickReady
    /\ (Emitted[i].opReady /\ ~Emitted[i].tickReady) => IsTerminal(Emitted[i])
    /\ IsTerminal(Emitted[i]) => (Emitted[i].opReady /\ i = Len(Emitted))

C3_Witness ==
  /\ pc = "done"
  /\ out[Len(out)].tickReady /\ out[Len(out)].opReady
  /\ IsTerminal(out[Len(out)])

\* C4: a chunk that is not keepalive filler and not an error is the whole
\* feed, comes from the operation, and exists only if fetch and extraction
\* succeeded; otherwise the chunks are filler and at most one final error.
C4_NoFeedBytesBeforeSuccess ==
  \A i \in 1..Len(Emitted) :
    LET c == Emitted[i].chunk
    IN /\ (c.ok /\ c.val # KeepaliveBytes) =>
            /\ page.ok /\ Extracted.ok
            /\ IsTerminal(Emitted[i])
            /\ c.val = write_to(to_rss(Extracted.val))
       /\ ~Extracted.ok =>
            \/ (c.ok /\ c.val = KeepaliveBytes /\ IsHeartbeat(Emitted[i]))
            \/ (~c.ok /\ IsTerminal(Emitted[i]) /\ i = Len(Emitted))

C4_Witness ==
  /\ ~Extracted.ok /\ pc = "done" /\ beats >= 1 /\ terms = 1
  /\ ~out[Len(out)].chunk.ok

\* C5: dropping the stream releases the interval and the future, and after
\* the drop nothing changes: no step of the operation, no tick, no chunk.
C5_DropReleases ==
  [][/\ pc' = "dropped" => (op' = "released" /\ timer' = "released")
     /\ pc = "dropped" => UNCHANGED streamVars]_vars

C5_Witness ==
  /\ pc = "dropped" /\ terms = 0 /\ beats >= 1
  /\ opIn > 0 /\ op = "released" /\ timer = "released"

\* C6: at most one yielded chunk awaits the consumer, and the generator is
\* never waiting for the next chunk while one is still unconsumed.
C6_AtMostOnePending ==
  /\ Len(pending) <= 1
  /\ pc = "select" => pending = <<>>

C6_Witness ==
  /\ pc = "yielded" /\ Len(pending) = 1 /\ delayed
  /\ tickIn <= 0 - Interval

\* C10: if the operation resolves and the consumer keeps pulling, the stream
\* emits the terminal chunk and ends; if the operation never resolves, the
\* stream never ends and heartbeats keep coming for as long as it is held.
C10_Liveness ==
  /\ (opDur # Never) ~> (pc = "done")
  /\ [](opDur = Never => pc # "done")
  /\ (opDur = Never) ~> (pending # <<>> /\ IsHeartbeat(pending[1]))

C10_Witness ==
  /\ opDur = Never /\ beats >= 3 /\ terms = 0
  /\ pending # <<>> /\ IsHeartbeat(pending[1])

(***************************************************************************)
(* LaunchSpec: the "Client Config" fairing that runs before rocket serves. *)
(***************************************************************************)
CfgValues == {"missing", "badtype", "set"}
TokenOutcomes == {"ok", "err"}
PostOutcomes == {"found", "other", "err"}

\* config.get_str(name)
get_str(v) ==
  IF v = "set" THEN Ok("value")
  ELSE IF v = "missing" THEN Err("Missing") ELSE Err("BadType")

\* mutation: a pair with exactly one missing half falls through to the crash arm
MatchArmStrict(u, p) ==
  IF (~u.ok /\ u.err = "Missing") /\ (~p.ok /\ p.err = "Missing") THEN "ignore"
  ELSE IF u.ok /\ p.ok THEN "login"
  ELSE "crash"
\* the arms of the match, in order
MatchArm(u, p) ==
  IF ~u.ok /\ u.err = "Missing" THEN "ignore"
  ELSE IF ~p.ok /\ p.err = "Missing" THEN "ignore"
  ELSE IF u.ok /\ p.ok THEN "login"
  ELSE "crash"

LaunchInit ==
  /\ lpc = "attach"
  /\ cfgUser \in CfgValues /\ cfgPass \in CfgValues
  /\ tokenRes \in TokenOutcomes /\ postRes \in PostOutcomes
  /\ logins = 0 /\ loggedIn = None /\ managed = FALSE
  /\ page = Err("transport") /\ ScrapeOff /\ StreamOff

\* ClientBuilder ... build().unwrap()
BuildClient ==
  /\ lpc = "attach"
  /\ lpc' = "config"
  /\ UNCHANGED <<cfgUser, cfgPass, tokenRes, postRes, logins, loggedIn, managed>>
  /\ UNCHANGED <<scrapeVars, streamVars>>

\* the match on (get_str("ao3_username"), get_str("ao3_password"))
ReadConfig ==
  /\ lpc = "config"
  /\ LET arm == MatchArm(get_str(cfgUser), get_str(cfgPass))
     IN /\ lpc' = CASE arm = "ignore" -> "manage"
                    [] arm = "login" -> "token"
                    [] OTHER -> "crashed"
        /\ logins' = IF arm = "login" THEN logins + 1 ELSE logins
  /\ UNCHANGED <<cfgUser, cfgPass, tokenRes, postRes, loggedIn, managed>>
  /\ UNCHANGED <<scrapeVars, streamVars>>

\* ao3_login: GET token_dispenser.json; an error is unwrapped by the fairing
LoginToken ==
  /\ lpc = "token"
  /\ lpc' = IF tokenRes = "err" THEN "crashed" ELSE "post"
  /\ UNCHANGED <<cfgUser, cfgPass, tokenRes, postRes, logins, loggedIn, managed>>
  /\ UNCHANGED <<scrapeVars, streamVars>>

\* ao3_login: POST users/login; Ok(status == FOUND)
LoginPost ==
  /\ lpc = "post"
  /\ IF postRes = "err"
       THEN lpc' = "crashed" /\ UNCHANGED loggedIn
       ELSE lpc' = "manage" /\ loggedIn' = Some(postRes = "found")
  /\ UNCHANGED <<cfgUser, cfgPass, tokenRes, postRes, logins, managed>>
  /\ UNCHANGED <<scrapeVars, streamVars>>

\* Ok(rocket.manage(client)): the fairing is done and rocket goes on to serve
Manage ==
  /\ lpc = "manage"
  /\ managed' = TRUE
  /\ lpc' = "serving"
  /\ UNCHANGED <<cfgUser, cfgPass, tokenRes, postRes, logins, loggedIn>>
  /\ UNCHANGED <<scrapeVars, streamVars>>

LaunchNext == BuildClient \/ ReadConfig \/ LoginToken \/ LoginPost \/ Manage

LaunchSpec == LaunchInit /\ [][LaunchNext]_vars

(***************************************************************************)
(* Properties of the launch.                                               *)
(***************************************************************************)
BothSet == cfgUser = "set" /\ cfgPass = "set"
ExactlyOneSet == (cfgUser = "set") # (cfgPass = "set")
EitherMissing == cfgUser = "missing" \/ cfgPass = "missing"

\* C7 as stated: the server never serves with exactly one of the two
\* credentials configured; with both it has logged in once, with neither
\* it has not logged in.
C7_NeverServesHalfPair ==
  lpc = "serving" =>
    /\ ~ExactlyOneSet
    /\ BothSet => (logins = 1 /\ IsSome(loggedIn))
    /\ ~BothSet => logins = 0

\* C7 amended: whenever either value is missing (also when the other one is
\* configured) the server serves unauthenticated without a login; with both
\* configured the login has run exactly once before serving; the launch
\* fails only when no value is missing and one has the wrong type, or when
\* the login request itself fails.
C7_MissingHalfIsIgnored ==
  /\ logins <= 1
  /\ lpc \in {"token", "post"} => (BothSet /\ logins = 1 /\ ~managed)
  /\ lpc = "serving" =>
       /\ managed
       /\ IF BothSet THEN logins = 1 /\ IsSome(loggedIn)
                     ELSE EitherMissing /\ logins = 0 /\ loggedIn = None
  /\ lpc = "crashed" =>
       /\ ~managed /\ ~EitherMissing
       /\ \/ cfgUser = "badtype" \/ cfgPass = "badtype"
          \/ (BothSet /\ logins = 1 /\ (tokenRes = "err" \/ postRes = "err"))

C7_Witness ==
  /\ lpc = "serving" /\ cfgUser = "set" /\ cfgPass = "missing"
  /\ logins = 0 /\ managed

(***************************************************************************)
(* Properties of the extraction.                                           *)
(***************************************************************************)
HasTitle(ch) == ch.titles # <<>>
HasHref(ch) ==
  \E t \in 1..Len(ch.titles) :
    \E a \in 1..Len(ch.titles[t].anchors) : IsSome(ch.titles[t].anchors[a].href)
HasContent(ch) == \E c \in 1..Len(ch.children) : ch.children[c].class = "userstuff"
Lacks(ch) == ~(HasTitle(ch) /\ HasHref(ch) /\ HasContent(ch))

\* C8: Work::scrape returns a Work only when title and both dates were
\* extracted and no chapter container lacks a title, an anchor href or a
\* content block; the Work then has one chapter per container, in document
\* order; a single lacking chapter makes the whole extraction an error.
C8_AllOrNothing ==
  IsSome(scraped) =>
    LET r == Unwrap(scraped)
    IN /\ r.ok =>
            /\ page.ok
            /\ page.val.h2title # <<>> /\ r.val.title = page.val.h2title[1]
            /\ page.val.published # <<>> /\ page.val.status # <<>>
            /\ Len(r.val.chapters) = Len(page.val.chapters)
            /\ \A i \in 1..Len(page.val.chapters) :
                 LET node == page.val.chapters[i]
                 IN /\ ~Lacks(node)
                    /\ r.val.chapters[i].title = node.titles[1].text
                    /\ r.val.chapters[i].link[2] = node.titles[1].anchors[1].href[1]
                    /\ \E c \in 1..Len(node.children) :
                         r.val.chapters[i].content = node.children[c].html
       /\ (page.ok /\ \E i \in 1..Len(page.val.chapters) : Lacks(page.val.chapters[i]))
            => ~r.ok

C8_Witness ==
  /\ IsSome(scraped) /\ Unwrap(scraped).ok
  /\ Len(Unwrap(scraped).val.chapters) = 2
  /\ Unwrap(scraped).val.chapters[1].title # Unwrap(scraped).val.chapters[2].title

\* C9: with a title present, an absent publish-date element fails with the
\* missing-field error, a present one whose text does not parse as
\* YYYY-MM-DD fails with a different (format) error, and "2021-07-04" parses.
C9_MalformedDateIsFormatError ==
  (IsSome(scraped) /\ page.ok /\ page.val.h2title # <<>>) =>
    LET r == Unwrap(scraped)
        p == page.val.published
    IN /\ p = <<>> => (~r.ok /\ r.err = "Missing Publish Date")
       /\ (p # <<>> /\ parse_from_str(p[1].text) = None) =>
            (~r.ok /\ r.err # "Missing Publish Date")
       /\ (p # <<>> /\ p[1].text = Chars(1)) =>
            (r.ok \/ r.err # "Missing Publish Date")

=============================================================================
